---- MODULE Spec2Model ----
(***************************************************************************)
(* image_search: path reservation and the download-with-fallback engine    *)
(* (download, download_n, download_until, next_available, download_image)  *)
(* and the record extractor (unpack, search).                              *)
(*                                                                         *)
(* Strings are sequences of one-character strings.  File names are taken   *)
(* relative to the target directory.  Base names are free of the glob      *)
(* metacharacters  * ? [ ]  and of path separators.                        *)
(***************************************************************************)
EXTENDS Integers, Sequences, FiniteSets, TLC

VARIABLES
    query,            \* args.query, the base name
    limit,            \* args.limit, the number of slots N
    blocking,         \* TRUE: blocking::download, FALSE: the async download
    files,            \* names of the files in the target directory
    phase,            \* position of download()
    suffix,           \* download: let mut suffix
    path,             \* download: let mut path (file name part)
    matches,          \* download: let mut matches
    paths,            \* download: let mut paths
    urls,             \* download_n: the pool as handed to download_n
    mut_urls,         \* download_n: Arc<Mutex<Vec<String>>>
    pc,               \* position of each download_until task
    url,              \* download_until: let mut url, per task
    outcome,          \* what each download_until task returned
    with_extensions,  \* download_n: the collected paths
    result,           \* what download returned
    popped,           \* history: the candidates next_available handed out
    created,          \* history: the files each slot created
    valid,            \* history: number of attempts that fetched and classified
    upc,              \* position of search() / unpack()
    document,         \* search: the text get() answered
    body,             \* unpack: mut body
    json,             \* unpack: let json
    image_objects,    \* unpack: let image_objects
    entry,            \* unpack: number of entries the for loop has taken
    images,           \* unpack: let mut images
    unpacked,         \* what unpack returned
    found,            \* what search returned
    call,             \* the function called: search, urls or download
    thumbnails,       \* args.thumbnails
    all,              \* urls: let mut all
    buf,              \* download_image: let buf, per task ("" when none)
    lock              \* the tasks that hold a guard of the pool's Mutex

argVars == <<query, limit, blocking, urls, call, thumbnails>>
reserveVars == <<suffix, path, matches, paths>>
taskVars == <<mut_urls, pc, url, outcome, buf, lock>>
histVars == <<popped, created, valid>>

unpackVars == <<upc, document, body, json, image_objects, entry, images,
                unpacked, found, all>>

vars == <<argVars, reserveVars, taskVars, histVars, files, phase,
          with_extensions, result, unpackVars>>

----------------------------------------------------------------------------
(* Bounds *)

MaxLimit == 2
MaxPool == 2
MaxEntries == 2

----------------------------------------------------------------------------
(* Strings *)

Digits == <<"0", "1", "2", "3", "4", "5", "6", "7", "8", "9">>

RECURSIVE to_string(_)
to_string(n) ==
    IF n < 10 THEN <<Digits[n + 1]>>
    ELSE to_string(n \div 10) \o <<Digits[(n % 10) + 1]>>

StartsWith(s, p) == Len(s) >= Len(p) /\ SubSeq(s, 1, Len(p)) = p

\* Position of the last "." of a name, 0 when there is none.
LastDot(name) ==
    LET dots == {i \in 1..Len(name) : name[i] = "."}
    IN  IF dots = {} THEN 0 ELSE CHOOSE i \in dots : \A j \in dots : j <= i

\* Path::file_stem: the name up to its last ".", the whole name when it has
\* no "." or only a leading one.
FileStem(name) ==
    IF name = <<".", ".">> THEN name
    ELSE IF LastDot(name) <= 1 THEN name
    ELSE SubSeq(name, 1, LastDot(name) - 1)

\* Path::with_extension: replaces what follows the last "." of the name.
WithExtension(name, ext) ==
    IF name = <<>> THEN name
    ELSE FileStem(name) \o (IF ext = <<>> THEN <<>> ELSE <<".">> \o ext)

\* glob::glob(stem + ".*"): the files whose name is stem, ".", anything.
Glob(stem) == {f \in files : StartsWith(f, stem \o <<".">>)}

\* dir.join(args.query.to_owned() + &suffix.to_string())
Stem(n) == query \o to_string(n)

----------------------------------------------------------------------------
(* Inputs *)

Queries == { <<"c">>, <<"c", ".", "b">>, <<".", "c">> }

PNG == <<"p", "n", "g">>
JPG == <<"j", "p", "g">>
SVG == <<"s", "v", "g">>

\* Directory contents at the time of the call: nothing; two files in the way
\* of suffix 1 and one in the way of suffix 10; files in the way of the
\* suffixes 0 to 9.
Directories(q) ==
    { {},
      { q \o <<"1", ".">> \o PNG, q \o <<"1", ".">> \o JPG,
        q \o <<"1", "0", ".">> \o PNG },
      { q \o <<Digits[d]>> \o <<".">> \o PNG : d \in 1..10 } }

\* What a candidate URL answers: bytes with a PNG signature, SVG text (no
\* binary signature), bytes with an archive signature, bytes with no known
\* signature, or a failed / timed-out request.
Responses == {"png", "svg", "zip", "txt", "neterr"}

----------------------------------------------------------------------------
(* Content classification, download_image *)

\* infer::get(&buf) without the matcher_type test: the extension of any
\* signature.
InferAnyKind(b) ==
    IF b = "png" THEN PNG ELSE IF b = "zip" THEN <<"z", "i", "p">> ELSE <<>>

\* infer::get(&buf) followed by the matcher_type test: the extension of an
\* image signature, <<>> when there is no signature or it is not an image.
Infer(b) ==
    IF b = "png" THEN PNG ELSE <<>>

\* blocking only: the first 1024 bytes, as text, contain "<svg".
ContainsSvg(b) == b = "svg"

\* The extension download_image settles on, <<>> for DownloadError::Extension.
Classify(b) ==
    IF blocking /\ ContainsSvg(b) THEN SVG ELSE Infer(b)

\* The candidate pool holds URLs; a URL is named by its position in the pool
\* download_n is given.
Pools == {[i \in 1..m |-> i] : m \in 0..MaxPool}

\* Result<PathBuf, DownloadError>
Ok(p) == [ok |-> TRUE, err |-> "", path |-> p]
Err(e) == [ok |-> FALSE, err |-> e, path |-> <<>>]

----------------------------------------------------------------------------
(* Documents: text as a sequence of tokens, serde_json::Value as a tree *)

\* A token of the fetched text: the anchor AF_initDataCallback, the closing
\* </script>, the punctuation of structured data, a string literal, an
\* integer or a fractional number, null, or any other run of text.
Tok(k) == [k |-> k, s |-> "", n |-> 0]
TStr(x) == [k |-> "str", s |-> x, n |-> 0]
TInt(x) == [k |-> "int", s |-> "", n |-> x]

\* serde_json::Value
Null == [t |-> "null", s |-> "", n |-> 0, a |-> <<>>]
Str(x) == [t |-> "string", s |-> x, n |-> 0, a |-> <<>>]
Num(x) == [t |-> "int", s |-> "", n |-> x, a |-> <<>>]
Float == [t |-> "float", s |-> "", n |-> 0, a |-> <<>>]
Arr(xs) == [t |-> "array", s |-> "", n |-> 0, a |-> xs]
\* An object's members are its keys and values in turn: <<k1, v1, k2, v2>>.
Obj(kvs) == [t |-> "object", s |-> "", n |-> 0, a |-> kvs]

\* The text of a value: Join lays the texts parts[lo..hi] out with commas.
RECURSIVE Serialize(_), Join(_, _, _)
Join(parts, lo, hi) ==
    IF lo > hi THEN <<>>
    ELSE IF lo = hi THEN parts[lo]
    ELSE Join(parts, lo, (lo + hi) \div 2) \o <<Tok(",")>>
         \o Join(parts, (lo + hi) \div 2 + 1, hi)

Serialize(v) ==
    CASE v.t = "null" -> <<Tok("null")>>
      [] v.t = "string" -> <<TStr(v.s)>>
      [] v.t = "int" -> <<TInt(v.n)>>
      [] v.t = "float" -> <<Tok("float")>>
      [] v.t = "array" ->
           <<Tok("[")>>
           \o Join([m \in 1..Len(v.a) |-> Serialize(v.a[m])], 1, Len(v.a))
           \o <<Tok("]")>>
      [] v.t = "object" ->
           <<Tok("{")>>
           \o Join([m \in 1..(Len(v.a) \div 2) |->
                      Serialize(v.a[2 * m - 1]) \o <<Tok(":")>>
                      \o Serialize(v.a[2 * m])], 1, Len(v.a) \div 2)
           \o <<Tok("}")>>

\* The positions of the tokens of kind k, in order.
Positions(text, k) ==
    SelectSeq([p \in 1..Len(text) |-> p], LAMBDA p : text[p].k = k)

\* str::find: the first position of a token, 0 for None.
Find(text, k) ==
    LET at == Positions(text, k) IN IF at = <<>> THEN 0 ELSE at[1]

\* An rfind whose None is taken for the start of the text.
RFindOrStart(text, k) ==
    LET at == Positions(text, k) IN IF at = <<>> THEN 1 ELSE at[Len(at)]

\* str::rfind: the last position of a token, 0 for None.
RFind(text, k) ==
    LET at == Positions(text, k) IN IF at = <<>> THEN 0 ELSE at[Len(at)]

\* serde_json::from_str.  Depths gives, for each token of text[lo..hi], the
\* number of arrays and objects open after it.
Opens(tok) == tok.k \in {"[", "{"}
Closes(tok) == tok.k \in {"]", "}"}

RECURSIVE Depths(_, _, _, _)
Depths(text, lo, hi, base) ==
    IF lo > hi THEN <<>>
    ELSE IF lo = hi
    THEN <<base + (IF Opens(text[lo]) THEN 1 ELSE IF Closes(text[lo]) THEN -1 ELSE 0)>>
    ELSE LET left == Depths(text, lo, (lo + hi) \div 2, base)
         IN  left \o Depths(text, (lo + hi) \div 2 + 1, hi, left[Len(left)])

Bad == [t |-> "bad", s |-> "", n |-> 0, a |-> <<>>]

\* The value that text[i..j] is, Bad when it is none. An array or object
\* spans from its opening token to the matching closing one; its items lie
\* between the commas of its own level.
RECURSIVE ParseRange(_, _, _, _)
ParseRange(text, d, i, j) ==
    IF i > j THEN Bad
    ELSE IF i = j
    THEN CASE text[i].k = "null" -> Null
           [] text[i].k = "str" -> Str(text[i].s)
           [] text[i].k = "int" -> Num(text[i].n)
           [] text[i].k = "float" -> Float
           [] OTHER -> Bad
    ELSE IF ~( \/ text[i].k = "[" /\ text[j].k = "]"
               \/ text[i].k = "{" /\ text[j].k = "}" )
    THEN Bad
    ELSE IF d[j] # d[i] - 1 \/ \E p \in i..(j - 1) : d[p] < d[i]
    THEN Bad
    ELSE IF j = i + 1
    THEN (IF text[i].k = "[" THEN Arr(<<>>) ELSE Obj(<<>>))
    ELSE LET commas == SelectSeq([p \in 1..(j - i - 1) |-> i + p],
                                 LAMBDA p : text[p].k = "," /\ d[p] = d[i])
             k == Len(commas) + 1
             from(m) == IF m = 1 THEN i + 1 ELSE commas[m - 1] + 1
             to(m) == IF m = k THEN j - 1 ELSE commas[m] - 1
         IN  IF text[i].k = "["
             THEN LET items == [m \in 1..k |->
                                  ParseRange(text, d, from(m), to(m))] \o <<>>
                  IN  IF \E m \in 1..k : items[m].t = "bad" THEN Bad
                      ELSE Arr(items)
             ELSE LET keyed(m) == /\ from(m) + 2 <= to(m)
                                  /\ text[from(m)].k = "str"
                                  /\ text[from(m) + 1].k = ":"
                      items == [m \in 1..(2 * k) |->
                                  IF ~keyed((m + 1) \div 2) THEN Bad
                                  ELSE IF m % 2 = 1
                                  THEN Str(text[from((m + 1) \div 2)].s)
                                  ELSE ParseRange(text, d, from(m \div 2) + 2,
                                                  to(m \div 2))] \o <<>>
                  IN  IF \E m \in 1..(2 * k) : items[m].t = "bad" THEN Bad
                      ELSE Obj(items)

\* The whole text is one value, or Err (Bad).
FromStr(text) == ParseRange(text, Depths(text, 1, Len(text), 0), 1, Len(text))

----------------------------------------------------------------------------
(* unpack: navigation of the parsed document *)

\* One step of a navigation chain: v.as_array(), v.as_object(), v.as_str(),
\* v.as_i64(), vec.last() answer None on a mismatch; vec[n] and map[k] on
\* the unwrapped Vec / Map panic when the index or key is missing.
AsArray == [op |-> "as_array", n |-> 0, k |-> ""]
AsObject == [op |-> "as_object", n |-> 0, k |-> ""]
AsStr == [op |-> "as_str", n |-> 0, k |-> ""]
AsI64 == [op |-> "as_i64", n |-> 0, k |-> ""]
Last == [op |-> "last", n |-> 0, k |-> ""]
At(n) == [op |-> "index", n |-> n, k |-> ""]
Key(k) == [op |-> "key", n |-> 0, k |-> k]

Some(v) == [st |-> "some", v |-> v]
None == [st |-> "none", v |-> Null]
Panic == [st |-> "panic", v |-> Null]

\* The members of an object with key k, by position of their value.
Members(v, k) == {m \in 1..(Len(v.a) \div 2) : v.a[2 * m - 1].s = k}


\* vec[n]
Index(v, n) == IF n < Len(v.a) THEN Some(v.a[n + 1]) ELSE Panic

\* map[k]
IndexKey(v, k) ==
    IF Members(v, k) = {} THEN Panic
    ELSE Some(v.a[2 * (CHOOSE m \in Members(v, k) :
                          \A o \in Members(v, k) : o <= m)])

\* as_i64 that answers None for a number that is not positive.
AsI64Positive(v) == IF v.t = "int" /\ v.n > 0 THEN Some(v) ELSE None

\* Value::as_i64
as_i64(v) == IF v.t = "int" THEN Some(v) ELSE None

Step(v, step) ==
    CASE step.op = "as_array" -> IF v.t = "array" THEN Some(v) ELSE None
      [] step.op = "as_object" -> IF v.t = "object" THEN Some(v) ELSE None
      [] step.op = "as_str" -> IF v.t = "string" THEN Some(v) ELSE None
      [] step.op = "as_i64" -> as_i64(v)
      [] step.op = "last" -> IF v.a = <<>> THEN None ELSE Some(v.a[Len(v.a)])
      [] step.op = "index" -> Index(v, step.n)
      [] step.op = "key" -> IndexKey(v, step.k)

\* A chain of steps from v: the first None or panic ends it.
RECURSIVE Walk(_, _)
Walk(v, steps) ==
    IF steps = <<>> THEN Some(v)
    ELSE LET r == Step(v, steps[1])
         IN  IF r.st = "some" THEN Walk(r.v, Tail(steps)) ELSE r

\* The first result of rs that is not Some, Some(Null) when all are.
RECURSIVE FirstFailure(_)
FirstFailure(rs) ==
    IF rs = <<>> THEN Some(Null)
    ELSE IF rs[1].st # "some" THEN rs[1]
    ELSE FirstFailure(Tail(rs))

\* json.as_array()?[56].as_array()?[1].as_array()?[0].as_array()?.last()?
\*     .as_array()?[1].as_array()?[0].as_array()?
OuterPath ==
    <<AsArray, At(56), AsArray, At(1), AsArray, At(0), AsArray, Last,
      AsArray, At(1), AsArray, At(0), AsArray>>

\* obj.as_array()[0].as_array()[0].as_object()["444383007"].as_array()[1]
\*    .as_array(), each as_* under uoc!
InnerPath ==
    <<AsArray, At(0), AsArray, At(0), AsObject, Key("444383007"), AsArray,
      At(1), AsArray>>

\* An Image with width and height read from each other's place.
ImageSwapped(i0, i1, i2, thumb, src) ==
    [url |-> i0.s, width |-> i1.n, height |-> i2.n,
     thumbnail |-> thumb.s, source |-> src.s]

\* Image { url, width, height, thumbnail, source } from i[0], i[2], i[1],
\* inner[2][0] and inner[22]["2003"][2].
Image(i0, i1, i2, thumb, src) ==
    [url |-> i0.s, width |-> i2.n, height |-> i1.n,
     thumbnail |-> thumb.s, source |-> src.s]

\* One iteration of for obj in image_objects.iter(): Some(image) to push,
\* None to continue, or a panic. The steps run in program order.
Extract(obj) ==
    LET inner == Walk(obj, InnerPath)
        i == IF inner.st = "some" THEN Walk(inner.v, <<At(3), AsArray>>)
             ELSE inner
        at(r, steps) == IF r.st = "some" THEN Walk(r.v, steps) ELSE r
        i0 == at(i, <<At(0), AsStr>>)
        i2 == at(i, <<At(2), AsI64>>)
        i1 == at(i, <<At(1), AsI64>>)
        thumb == at(inner, <<At(2), AsArray, At(0), AsStr>>)
        src == at(inner, <<At(22), AsObject, Key("2003"), AsArray, At(2),
                           AsStr>>)
        failure == FirstFailure(<<inner, i, i0, i2, i1, thumb, src>>)
    IN  IF failure.st # "some" THEN failure
        ELSE [st |-> "some", v |-> Image(i0.v, i1.v, i2.v, thumb.v, src.v)]

----------------------------------------------------------------------------
(* download: directory creation and path reservation *)

Tasks == 1..Len(pc)

\* unpack and search at rest.
NoSearch ==
    /\ upc = "idle"
    /\ document = <<>>
    /\ body = <<>>
    /\ json = Null
    /\ image_objects = <<>>
    /\ entry = 0
    /\ images = <<>>
    /\ unpacked = "pending"
    /\ found = [kind |-> "pending", images |-> <<>>]
    /\ all = <<>>

\* The reservation and download_n before download reaches them.
NoDownload ==
    /\ suffix = 0
    /\ path = <<>>
    /\ matches = 0
    /\ paths = <<>>
    /\ mut_urls = <<>>
    /\ pc = <<>>
    /\ url = <<>>
    /\ outcome = <<>>
    /\ buf = <<>>
    /\ lock = {}
    /\ with_extensions = <<>>
    /\ result = "none"
    /\ popped = <<>>
    /\ created = <<>>
    /\ valid = 0

\* download, at its call of urls(); urls is the pool that call will give.
Init ==
    /\ query \in Queries
    /\ limit \in 0..MaxLimit
    /\ blocking \in BOOLEAN
    /\ files \in Directories(query)
    /\ urls \in Pools
    /\ call = "download"
    /\ thumbnails = FALSE
    /\ phase = "urls"
    /\ NoDownload
    /\ NoSearch

\* What download returns when urls(..).await? is an error.
UrlsErrors == {"Err(Network)", "Err(Parse)"}

\* let images = urls(Arguments { limit: 0, ..args }).await?: the search
\* request has been answered and the pool extracted.
AwaitUrls ==
    /\ phase = "urls"
    /\ phase' = "create_dir"
    /\ UNCHANGED <<argVars, reserveVars, taskVars, histVars, files,
                   with_extensions, result, unpackVars>>

\* urls(..).await? returns the error of search.
AwaitUrlsErr ==
    /\ phase = "urls"
    /\ phase' = "returned"
    /\ result' \in UrlsErrors
    /\ UNCHANGED <<argVars, reserveVars, taskVars, histVars, files,
                   with_extensions, unpackVars>>

\* std::fs::create_dir_all(&dir) succeeds; let mut suffix = 0, paths = [].
CreateDirAll ==
    /\ phase = "create_dir"
    /\ phase' = "for"
    /\ UNCHANGED <<argVars, reserveVars, taskVars, histVars, files,
                   with_extensions, result, unpackVars>>

\* create_dir_all fails and download goes on to the reservation.
CreateDirAllErrIgnored ==
    /\ phase = "create_dir"
    /\ phase' = "for"
    /\ result' = "Err(Dir)"
    /\ UNCHANGED <<argVars, reserveVars, taskVars, histVars, files,
                   with_extensions, unpackVars>>

\* std::fs::create_dir_all(&dir) fails: return Err(Error::Dir(e)).
CreateDirAllErr ==
    /\ phase = "create_dir"
    /\ phase' = "returned"
    /\ result' = "Err(Dir)"
    /\ UNCHANGED <<argVars, reserveVars, taskVars, histVars, files,
                   with_extensions, unpackVars>>

\* One iteration of for _ in 0..args.limit, up to the while loop: the first
\* probe of the current suffix.
ReserveProbe ==
    /\ phase = "for"
    /\ Len(paths) < limit
    /\ path' = Stem(suffix)
    /\ matches' = Cardinality(Glob(Stem(suffix)))
    /\ phase' = "while"
    /\ UNCHANGED <<argVars, suffix, paths, taskVars, histVars, files,
                   with_extensions, result, unpackVars>>

\* A while loop that advances the suffix once and does not probe again.
ReserveSkipNoProbe ==
    /\ phase = "while"
    /\ matches > 0
    /\ suffix' = suffix + 1
    /\ path' = Stem(suffix + 1)
    /\ matches' = 0
    /\ UNCHANGED <<argVars, paths, taskVars, histVars, files, phase,
                   with_extensions, result, unpackVars>>

\* One iteration of while matches > 0: advance the suffix and probe again.
ReserveSkip ==
    /\ phase = "while"
    /\ matches > 0
    /\ suffix' = suffix + 1
    /\ path' = Stem(suffix + 1)
    /\ matches' = Cardinality(Glob(Stem(suffix + 1)))
    /\ UNCHANGED <<argVars, paths, taskVars, histVars, files, phase,
                   with_extensions, result, unpackVars>>

\* paths.push(path) without suffix += 1.
ReservePushKeepsSuffix ==
    /\ phase = "while"
    /\ matches = 0
    /\ paths' = Append(paths, path)
    /\ phase' = "for"
    /\ UNCHANGED <<argVars, suffix, path, matches, taskVars, histVars, files,
                   with_extensions, result, unpackVars>>

\* paths.push(path); suffix += 1
ReservePush ==
    /\ phase = "while"
    /\ matches = 0
    /\ paths' = Append(paths, path)
    /\ suffix' = suffix + 1
    /\ phase' = "for"
    /\ UNCHANGED <<argVars, path, matches, taskVars, histVars, files,
                   with_extensions, result, unpackVars>>

----------------------------------------------------------------------------
(* download_n, download_until, next_available, download_image *)

\* download_n called inside the reservation loop, on the paths so far.
DownloadNEarly ==
    /\ phase = "for"
    /\ mut_urls' = urls
    /\ pc' = [t \in 1..Len(paths) |-> "next_available"]
    /\ url' = [t \in 1..Len(paths) |-> 0]
    /\ outcome' = [t \in 1..Len(paths) |-> Err("pending")]
    /\ created' = [t \in 1..Len(paths) |-> {}]
    /\ buf' = [t \in 1..Len(paths) |-> ""]
    /\ phase' = "join_all"
    /\ UNCHANGED <<argVars, reserveVars, lock, popped, valid, files,
                   with_extensions, result, unpackVars>>

\* let mut_urls = Arc::new(Mutex::new(urls)); one download_until per path.
DownloadN ==
    /\ phase = "for"
    /\ Len(paths) = limit
    /\ mut_urls' = urls
    /\ pc' = [t \in 1..Len(paths) |-> "next_available"]
    /\ url' = [t \in 1..Len(paths) |-> 0]
    /\ outcome' = [t \in 1..Len(paths) |-> Err("pending")]
    /\ created' = [t \in 1..Len(paths) |-> {}]
    /\ buf' = [t \in 1..Len(paths) |-> ""]
    /\ phase' = "join_all"
    /\ UNCHANGED <<argVars, reserveVars, lock, popped, valid, files,
                   with_extensions, result, unpackVars>>

\* blocking::download: tokio::runtime::Runtime::new() fails, return
\* Err(Error::Runtime(e)).
RuntimeErr ==
    /\ blocking
    /\ phase = "for"
    /\ Len(paths) = limit
    /\ result' = "Err(Runtime)"
    /\ phase' = "returned"
    /\ UNCHANGED <<argVars, reserveVars, taskVars, histVars, files,
                   with_extensions, unpackVars>>

\* A pop that reads the front element and leaves it in the vector.
Remove0Keeps(v) == v

\* Vec::pop in place of remove(0): the vector without its last element.
RemoveLast(v) == SubSeq(v, 1, Len(v) - 1)

\* Vec::remove(1) in place of remove(0): the second element goes.
Remove1(v) == IF Len(v) > 1 THEN <<v[1]>> \o SubSeq(v, 3, Len(v)) ELSE <<>>

\* Vec::remove(0): the vector without its first element.
Remove0(v) == Tail(v)

\* An empty test that is off by one.
IsEmptyOrLast(v) == Len(v) <= 1

\* mut_urls.is_empty()
IsEmpty(v) == v = <<>>

\* A lock() that does not wait for the guard to be dropped.
FreeAlways(holders) == TRUE

\* Mutex::lock returns when no guard is out.
Free(holders) == holders = {}

\* next_available!: let mut mut_urls = $urls.lock().unwrap()
Lock(t) ==
    /\ phase = "join_all"
    /\ pc[t] = "next_available"
    /\ Free(lock)
    /\ lock' = lock \cup {t}
    /\ pc' = [pc EXCEPT ![t] = "locked"]
    /\ UNCHANGED <<argVars, reserveVars, mut_urls, url, outcome, buf, histVars,
                   files, phase, with_extensions, result, unpackVars>>

\* next_available!, holding the guard: Overflow on an empty pool, else pop
\* the front; the guard is dropped on both ways out.
NextAvailable(t) ==
    /\ phase = "join_all"
    /\ pc[t] = "locked"
    /\ IF IsEmpty(mut_urls)
       THEN /\ pc' = [pc EXCEPT ![t] = "returned"]
            /\ outcome' = [outcome EXCEPT ![t] = Err("Overflow")]
            /\ UNCHANGED <<mut_urls, url, popped>>
       ELSE /\ url' = [url EXCEPT ![t] = mut_urls[1]]
            /\ mut_urls' = Remove0(mut_urls)
            /\ popped' = Append(popped, mut_urls[1])
            /\ pc' = [pc EXCEPT ![t] = "download_image"]
            /\ UNCHANGED outcome
    /\ lock' = lock \ {t}
    /\ buf' = [buf EXCEPT ![t] = ""]
    /\ UNCHANGED <<argVars, reserveVars, created, valid, files, phase,
                   with_extensions, result, unpackVars>>

\* download_image: the request and the body (DownloadError::Network when the
\* request fails or times out), the classification (DownloadError::Extension),
\* then File::create and write_all on path.with_extension(extension)
\* (DownloadError::Fs). On Err download_until goes on to next_available!.
DownloadImage(t) ==
    /\ phase = "join_all"
    /\ pc[t] = "download_image"
    /\ \E r \in Responses :
         /\ buf' = [buf EXCEPT ![t] = IF r = "neterr" THEN "" ELSE r]
         /\ LET extension == Classify(r)
                with_extension == WithExtension(paths[t], extension)
            IN  IF r = "neterr"
                THEN /\ outcome' = [outcome EXCEPT ![t] = Err("Network")]
                     /\ pc' = [pc EXCEPT ![t] = "next_available"]
                     /\ UNCHANGED <<created, files, valid>>
                ELSE IF extension = <<>>
                THEN /\ outcome' = [outcome EXCEPT ![t] = Err("Extension")]
                     /\ pc' = [pc EXCEPT ![t] = "next_available"]
                     /\ UNCHANGED <<created, files, valid>>
                ELSE /\ valid' = valid + 1
                     /\ \/ /\ outcome' = [outcome EXCEPT ![t] = Err("Fs")]
                           /\ pc' = [pc EXCEPT ![t] = "next_available"]
                           /\ \/ UNCHANGED <<created, files>>
                                                      \* File::create fails
                              \/ /\ files' = files \cup {with_extension}
                                 /\ created' = [created EXCEPT ![t] =
                                                   @ \cup {with_extension}]
                                                      \* write_all fails
                        \/ /\ files' = files \cup {with_extension}
                           /\ created' = [created EXCEPT ![t] =
                                             @ \cup {with_extension}]
                           /\ pc' = [pc EXCEPT ![t] = "returned"]
                           /\ outcome' = [outcome EXCEPT ![t] =
                                             Ok(with_extension)]
    /\ url' = [url EXCEPT ![t] = 0]      \* the attempt consumed its candidate
    /\ UNCHANGED <<argVars, reserveVars, mut_urls, lock, popped, phase,
                   with_extensions, result, unpackVars>>

\* A collection that pushes every Ok to the front.
RECURSIVE FilterOkReversed(_)
FilterOkReversed(rs) ==
    IF rs = <<>> THEN <<>>
    ELSE FilterOkReversed(Tail(rs)) \o (IF rs[1].ok THEN <<rs[1].path>> ELSE <<>>)

\* A collection that stops at the first Err.
RECURSIVE FilterOkUntilErr(_)
FilterOkUntilErr(rs) ==
    IF rs = <<>> \/ ~rs[1].ok THEN <<>>
    ELSE <<rs[1].path>> \o FilterOkUntilErr(Tail(rs))

\* .filter_map(|x| x.ok()).collect()
RECURSIVE FilterOk(_)
FilterOk(rs) ==
    IF rs = <<>> THEN <<>>
    ELSE (IF rs[1].ok THEN <<rs[1].path>> ELSE <<>>) \o FilterOk(Tail(rs))

\* A join that returns as soon as one task has returned.
JoinAny ==
    /\ phase = "join_all"
    /\ \E t \in Tasks : pc[t] = "returned"
    /\ with_extensions' = FilterOk(outcome)
    /\ result' = "Ok"
    /\ phase' = "returned"
    /\ UNCHANGED <<argVars, reserveVars, taskVars, histVars, files, unpackVars>>

\* future::join_all(downloaders).await, then download returns
\* Ok(with_extensions).
JoinAll ==
    /\ phase = "join_all"
    /\ \A t \in Tasks : pc[t] = "returned"
    /\ with_extensions' = FilterOk(outcome)
    /\ result' = "Ok"
    /\ phase' = "returned"
    /\ UNCHANGED <<argVars, reserveVars, taskVars, histVars, files, unpackVars>>

Next ==
    \/ AwaitUrls
    \/ AwaitUrlsErr
    \/ CreateDirAll
    \/ CreateDirAllErr
    \/ ReserveProbe
    \/ ReserveSkip
    \/ ReservePush
    \/ DownloadN
    \/ RuntimeErr
    \/ \E t \in Tasks : Lock(t)
    \/ \E t \in Tasks : NextAvailable(t)
    \/ \E t \in Tasks : DownloadImage(t)
    \/ JoinAll

Spec == Init /\ [][Next]_vars

\* download with every step that can be taken eventually taken: create_dir_all
\* and the reservation run to their end, join_all polls every task that is
\* not finished, and every request ends (in a response, an error or the
\* timeout).
LiveSpec == Init /\ [][Next]_vars /\ WF_vars(Next)

\* download with urls and create_dir_all succeeding, up to the call of
\* download_n.
ReserveNext ==
    \/ AwaitUrls
    \/ CreateDirAll
    \/ ReserveProbe
    \/ ReserveSkip
    \/ ReservePush

ReserveSpec == Init /\ [][ReserveNext]_vars /\ WF_vars(ReserveNext)

----------------------------------------------------------------------------
(* search and unpack *)

Pad(n) == [m \in 1..n |-> Null]

\* The parsed document around the array of per-image entries.
Template(entries) ==
    Arr(Pad(56) \o
        <<Arr(<<Null,
                Arr(<<Arr(<<Null,
                            Arr(<<Null, Arr(<<Arr(entries)>>)>>)>>)>>)>>)>>)

EntryOf(inner) ==
    Arr(<<Arr(<<Obj(<<Str("444383007"), Arr(<<Null, inner>>)>>)>>)>>)

InnerOf(i0, i1, i2, thumb, src) ==
    Arr(<<Null, Null, Arr(<<thumb>>), Arr(<<i0, i1, i2>>)>> \o Pad(18)
        \o <<Obj(<<Str("2003"), Arr(<<Null, Null, src>>)>>)>>)

\* Entries as the template has them, with values that are empty, zero or
\* negative, with a value of the wrong type at some step, and with an
\* array too short or an object without the key at some step.
EntryKinds ==
    { EntryOf(InnerOf(Str("u1"), Num(10), Num(20), Str("t1"), Str("s1"))),
      EntryOf(InnerOf(Str("u2"), Num(30), Num(40), Str("t2"), Str("s2"))),
      EntryOf(InnerOf(Str(""), Num(0), Num(-5), Str(""), Str(""))),
      Null,
      EntryOf(InnerOf(Str("u3"), Float, Num(1), Str("t3"), Str("s3"))),
      EntryOf(InnerOf(Str("u4"), Num(1), Num(1), Str("t4"), Null)),
      Arr(<<>>),
      Arr(<<Arr(<<Obj(<<Str("1"), Null>>)>>)>>),
      EntryOf(Arr(<<Null, Null, Arr(<<Str("t5")>>),
                    Arr(<<Str("u5"), Num(1), Num(2)>>)>>)),
      EntryOf(Arr(<<Null, Null, Arr(<<Str("t6")>>),
                    Arr(<<Str("u6"), Num(1)>>)>> \o Pad(19))) }

EntrySeqs == UNION {[1..n -> EntryKinds] : n \in 0..MaxEntries}

\* Parsed documents whose outer path does not resolve: a top-level array
\* that is too short, a step of the wrong type, an empty array before last().
OuterKinds ==
    { Arr(Pad(3)),
      Arr(Pad(57)),
      Arr(Pad(56) \o <<Arr(<<Null, Arr(<<Arr(<<>>)>>)>>)>>) }

Junk == <<Tok("text")>>
Anchor == <<Tok("AF_initDataCallback")>>
ScriptEnd == <<Tok("</script>")>>

\* The page around the data: an earlier callback block, then the anchor, the
\* data as an argument followed by ", sideChannel ..." and </script>.
Page(data) ==
    Junk \o Anchor \o Junk \o <<Tok("["), TInt(0), Tok("]"), Tok(",")>> \o Junk
    \o ScriptEnd \o Junk \o Anchor \o Junk \o data \o <<Tok(",")>> \o Junk
    \o ScriptEnd \o Junk

\* The texts get() answers: pages on the template, pages whose outer path
\* does not resolve, a page without the anchor, and pages the slicing or the
\* parser gives up on.
Documents ==
    {Page(Serialize(Template(es))) : es \in EntrySeqs}
    \cup {Page(Serialize(o)) : o \in OuterKinds}
    \cup { Junk \o Serialize(Template(<<>>)) \o <<Tok(",")>> \o Junk \o ScriptEnd,
           Junk \o Anchor \o Junk \o <<Tok(",")>> \o Junk \o ScriptEnd,
           Junk \o Anchor \o Junk \o Serialize(Template(<<>>)) \o <<Tok(",")>> \o Junk,
           Junk \o Anchor \o Junk \o <<Tok("["), Tok("]")>> \o ScriptEnd,
           Junk \o Anchor \o Junk \o Serialize(Template(<<>>)) \o Junk \o ScriptEnd,
           Page(<<Tok("["), TInt(1), Tok("]"), Tok("]")>>) }

\* The functions that call search: search itself, urls, and download
\* through urls.
Calls == {"search", "urls", "download"}

\* download calling urls with its own limit.
SearchLimitOwn == limit

\* The limit search is called with: download calls urls with limit: 0.
SearchLimit == IF call = "download" THEN 0 ELSE limit

\* download and search at rest, before the call of get().
BeforeGet ==
    /\ query = <<"c">>
    /\ blocking = FALSE
    /\ files = {}
    /\ urls = <<>>
    /\ phase = "idle"
    /\ NoDownload
    /\ upc = "get"
    /\ document = <<>>
    /\ body = <<>>
    /\ json = Null
    /\ image_objects = <<>>
    /\ entry = 0
    /\ images = <<>>
    /\ unpacked = "pending"
    /\ found = [kind |-> "pending", images |-> <<>>]
    /\ all = <<>>

\* search, from the call of get() on; search does not read args.thumbnails.
SearchInit ==
    /\ call = "search"
    /\ thumbnails = FALSE
    /\ limit \in 0..MaxLimit
    /\ BeforeGet

\* urls, and download up to its pool, from the call of get() on. download
\* passes limit: 0 to urls and does not read its own limit before it has the
\* pool.
UrlsInit ==
    /\ call \in Calls \ {"search"}
    /\ thumbnails \in BOOLEAN
    /\ limit \in (IF call = "download" THEN {1} ELSE 0..MaxLimit)
    /\ BeforeGet

downloadVars == <<argVars, reserveVars, taskVars, histVars, files, phase,
                  with_extensions, result>>

\* get(url) answers the text of the page.
Get ==
    /\ upc = "get"
    /\ \E text \in Documents :
         /\ document' = text
         /\ body' = text
    /\ upc' = "slice"
    /\ UNCHANGED <<downloadVars, json, image_objects, entry, images, unpacked,
                   found, all>>

\* get(url) fails: return Err(Error::Network(e)).
GetErr ==
    /\ upc = "get"
    /\ upc' = "returned"
    /\ found' = [kind |-> "Err(Network)", images |-> <<>>]
    /\ UNCHANGED <<downloadVars, document, body, json, image_objects, entry,
                   images, unpacked, all>>

\* unpack returns None.
ReturnNone ==
    /\ unpacked' = "None"
    /\ upc' = "search"

\* unpack, the slicing: from the last anchor, from the first "[", up to the
\* first </script>, up to the last ",".
Slice ==
    /\ upc = "slice"
    /\ LET script == RFind(body, "AF_initDataCallback")
           body1 == SubSeq(body, script, Len(body))
           start == Find(body1, "[")
           body2 == SubSeq(body1, start, Len(body1))
           script_end == Find(body2, "</script>")
           body3 == SubSeq(body2, 1, script_end - 1)
           end == RFind(body3, ",")
       IN  IF script = 0 \/ start = 0 \/ script_end = 0 \/ end = 0
           THEN ReturnNone /\ UNCHANGED body
           ELSE /\ body' = SubSeq(body3, 1, end - 1)
                /\ upc' = "from_str"
                /\ UNCHANGED unpacked
    /\ UNCHANGED <<downloadVars, document, json, image_objects, entry, images,
                   found, all>>

\* let json = match serde_json::from_str(&body)
Parse ==
    /\ upc = "from_str"
    /\ LET j == FromStr(body)
       IN  IF j.t = "bad"
           THEN ReturnNone /\ UNCHANGED json
           ELSE /\ json' = j
                /\ upc' = "navigate"
                /\ UNCHANGED unpacked
    /\ UNCHANGED <<downloadVars, document, body, image_objects, entry, images,
                   found, all>>

\* let image_objects = json.as_array()?[56] ... .as_array()?
Navigate ==
    /\ upc = "navigate"
    /\ LET r == Walk(json, OuterPath)
       IN  CASE r.st = "some" ->
                  /\ image_objects' = r.v.a
                  /\ upc' = "for"
                  /\ UNCHANGED unpacked
             [] r.st = "none" -> ReturnNone /\ UNCHANGED image_objects
             [] r.st = "panic" ->
                  /\ upc' = "panicked"
                  /\ unpacked' = "panic"
                  /\ UNCHANGED image_objects
    /\ UNCHANGED <<downloadVars, document, body, json, entry, images, found,
                   all>>

\* One iteration of for obj in image_objects.iter().
Entry ==
    /\ upc = "for"
    /\ entry < Len(image_objects)
    /\ entry' = entry + 1
    /\ LET r == Extract(image_objects[entry + 1])
       IN  CASE r.st = "some" ->
                  /\ images' = Append(images, r.v)
                  /\ UNCHANGED <<upc, unpacked>>
             [] r.st = "none" -> UNCHANGED <<images, upc, unpacked>>
             [] r.st = "panic" ->
                  /\ upc' = "panicked"
                  /\ unpacked' = "panic"
                  /\ UNCHANGED images
    /\ UNCHANGED <<downloadVars, document, body, json, image_objects, found,
                   all>>

\* Some(images)
ReturnImages ==
    /\ upc = "for"
    /\ entry = Len(image_objects)
    /\ unpacked' = "Some"
    /\ upc' = "search"
    /\ UNCHANGED <<downloadVars, document, body, json, image_objects, entry,
                   images, found, all>>

\* if imgs.len() > args.limit && args.limit > 0: the first args.limit
\* images, else all of them.
LimitedAlways(imgs, lim) ==
    IF Len(imgs) > lim THEN SubSeq(imgs, 1, lim) ELSE imgs

Limited(imgs, lim) ==
    IF Len(imgs) > lim /\ lim > 0 THEN SubSeq(imgs, 1, lim) ELSE imgs

\* search after unpack: Err(Error::Parse) on None, else the images, cut to
\* args.limit when there are more and the limit is not 0. urls and
\* download go on with the images, and return the error (?) otherwise.
Search ==
    /\ upc = "search"
    /\ found' = IF unpacked = "None"
                THEN [kind |-> "Err(Parse)", images |-> <<>>]
                ELSE [kind |-> "Ok", images |-> Limited(images, SearchLimit)]
    /\ upc' = IF call = "search" \/ unpacked = "None" THEN "returned" ELSE "urls"
    /\ UNCHANGED <<downloadVars, document, body, json, image_objects, entry,
                   images, unpacked, all>>

\* The thumbnail of every image when args.thumbnails, else its url.
SelectThumbnail(imgs, thumb) ==
    [m \in 1..Len(imgs) |-> imgs[m].thumbnail]

Select(imgs, thumb) ==
    [m \in 1..Len(imgs) |-> IF thumb THEN imgs[m].thumbnail ELSE imgs[m].url]

\* urls after search: for image in images.iter() { all.push(..) }; Ok(all).
\* For download this is the candidate pool.
Urls ==
    /\ upc = "urls"
    /\ all' = Select(found.images, thumbnails)
    /\ upc' = "returned"
    /\ UNCHANGED <<downloadVars, document, body, json, image_objects, entry,
                   images, unpacked, found>>

SearchNext ==
    \/ Get
    \/ GetErr
    \/ Slice
    \/ Parse
    \/ Navigate
    \/ Entry
    \/ ReturnImages
    \/ Search

SearchSpec == SearchInit /\ [][SearchNext]_vars

UrlsNext ==
    \/ SearchNext
    \/ Urls

UrlsSpec == UrlsInit /\ [][UrlsNext]_vars

----------------------------------------------------------------------------
(* Properties *)

Distinct(s) == \A i, j \in DOMAIN s : i # j => s[i] # s[j]


\* Attempts that fetched and classified but failed in File::create or
\* write_all.
FsErrs == valid - Cardinality({t \in Tasks : outcome[t].ok})

Returned == phase = "returned" /\ result = "Ok"

\* C1: over a whole run of download_n no position of the initial pool is
\* popped twice by next_available, and no two tasks hold the same candidate.
C1_PoppedAtMostOnce ==
    /\ Distinct(popped)
    /\ \A i \in DOMAIN popped : popped[i] \in DOMAIN urls
    /\ \A t1, t2 \in Tasks :
         (t1 # t2 /\ pc[t1] = "download_image" /\ pc[t2] = "download_image")
            => url[t1] # url[t2]

\* Two tasks are inside download_image at once, each with a popped candidate.
C1_Witness ==
    \E t1, t2 \in Tasks :
       t1 # t2 /\ pc[t1] = "download_image" /\ pc[t2] = "download_image"

\* C2: with M >= N and every candidate fetching, classifying and being
\* written, download_n launches N tasks, returns N pairwise-distinct paths
\* and pops exactly N candidates, each once.
C2_AllValidGivesNDistinctPaths ==
    (Returned /\ Len(urls) >= limit /\ valid = Len(popped) /\ FsErrs = 0)
       => /\ Len(pc) = limit
          /\ Len(with_extensions) = limit
          /\ Distinct(with_extensions)
          /\ Len(popped) = limit
          /\ Distinct(popped)

\* C3: download_n returns at most as many paths as there are valid
\* candidates, a slot that ends in Overflow contributes no path and has
\* created no file, and download returns Ok (an empty list for an empty pool).
C3_OverflowSlotsLeaveNothing ==
    (phase = "returned" /\ result \notin {"Err(Dir)", "Err(Runtime)"} \cup UrlsErrors)
       => /\ result = "Ok"
          /\ Len(with_extensions) <= valid
          /\ urls = <<>> => with_extensions = <<>>
          /\ \A t \in Tasks :
               outcome[t].err = "Overflow"
                  => /\ ~outcome[t].ok
                     /\ created[t] = {}

\* C4: a slot creates at most one file, and a slot whose attempts have all
\* failed so far has no file.
C4_AtMostOneFilePerSlot ==
    \A t \in Tasks :
       /\ Cardinality(created[t]) <= 1
       /\ ~outcome[t].ok => created[t] = {}

\* C5: a successful attempt returns and writes stem + "." + extension.
C5_PathIsStemPlusExtension ==
    \A t \in Tasks :
       outcome[t].ok
          => /\ outcome[t].path \in files
             /\ \E ext \in {PNG, SVG} :
                  outcome[t].path = paths[t] \o <<".">> \o ext

\* C6: reservation ends, with exactly N pairwise-distinct stems, none of
\* them the stem of a file of the directory.
C6_Reserved ==
    /\ Distinct(paths)
    /\ Len(paths) <= limit
    /\ \A i \in DOMAIN paths :
         ~\E f \in files : StartsWith(f, paths[i] \o <<".">>)

C6_ReservationDone == phase = "for" /\ Len(paths) = limit

C6_Reservation == []C6_Reserved /\ <>C6_ReservationDone

\* Two stems are reserved after the loop skipped a suffix that was in use.
C6_Witness ==
    /\ C6_ReservationDone
    /\ Len(paths) >= 2
    /\ suffix > Len(paths)

HasAnchor(text) == \E p \in DOMAIN text : text[p].k = "AF_initDataCallback"

\* get() answered a text.
Answered == upc # "get" /\ found.kind # "Err(Network)"

\* C7: on a document without the anchor token unpack returns None, no
\* records, and search reports Error::Parse.
C7_NoAnchorIsParseError ==
    (Answered /\ ~HasAnchor(document))
       => /\ images = <<>>
          /\ upc \in {"slice", "search", "returned"}
          /\ upc # "slice" => unpacked = "None"
          /\ upc = "returned" => found = [kind |-> "Err(Parse)", images |-> <<>>]

\* search has returned on a document that holds data and no anchor.
C7_Witness ==
    /\ upc = "returned"
    /\ found.kind = "Err(Parse)"
    /\ ~HasAnchor(document)
    /\ \E p \in DOMAIN document : document[p].k = "["

\* An array v with at least n + 1 elements whose element n has type t.
Has(v, n, t) == v.t = "array" /\ Len(v.a) > n /\ v.a[n + 1].t = t

\* The value of the last member k of object v.
Member(v, k) ==
    v.a[2 * (CHOOSE m \in Members(v, k) : \A o \in Members(v, k) : o <= m)]

\* The inner record of an entry: entry[0][0]["444383007"][1].
InnerRecord(obj) == Member(obj.a[1].a[1], "444383007").a[2]

HasInnerRecord(obj) ==
    /\ Has(obj, 0, "array")
    /\ Has(obj.a[1], 0, "object")
    /\ Members(obj.a[1].a[1], "444383007") # {}
    /\ Has(Member(obj.a[1].a[1], "444383007"), 1, "array")

\* An entry is well-formed when every place unpack reads exists and has the
\* type unpack reads it as.
WellFormed(obj) ==
    /\ HasInnerRecord(obj)
    /\ LET inner == InnerRecord(obj)
       IN  /\ Has(inner, 2, "array")
           /\ Has(inner.a[3], 0, "string")
           /\ Has(inner, 3, "array")
           /\ Has(inner.a[4], 0, "string")
           /\ Has(inner.a[4], 1, "int")
           /\ Has(inner.a[4], 2, "int")
           /\ Has(inner, 22, "object")
           /\ Members(inner.a[23], "2003") # {}
           /\ Has(Member(inner.a[23], "2003"), 2, "string")

\* C8: an entry whose inner navigation hits a mismatch is skipped: the loop
\* over the entries never panics, and every well-formed entry taken so far
\* has given a record.
C8_BadEntrySkipped ==
    /\ entry > 0 => upc # "panicked"
    /\ Len(images) = Cardinality({m \in 1..entry : WellFormed(image_objects[m])})

\* C9 as stated: every record has non-empty url, thumbnail and source and
\* strictly positive width and height.
C9_RecordsNonEmptyPositive ==
    \A m \in DOMAIN images :
       /\ images[m].url # ""
       /\ images[m].thumbnail # ""
       /\ images[m].source # ""
       /\ images[m].width > 0
       /\ images[m].height > 0

\* The record of a well-formed entry.
RecordOf(obj) ==
    LET inner == InnerRecord(obj)
    IN  [url |-> inner.a[4].a[1].s,
         height |-> inner.a[4].a[2].n,
         width |-> inner.a[4].a[3].n,
         thumbnail |-> inner.a[3].a[1].s,
         source |-> Member(inner.a[23], "2003").a[3].s]

\* C9 as amended: a record is built for every entry whose values have the
\* types unpack reads, whatever the values: an empty string and a zero or
\* negative number are kept as they are.
C9_RecordsAsFound ==
    /\ Len(images) = Cardinality({m \in 1..entry : WellFormed(image_objects[m])})
    /\ \A m \in 1..entry :
          WellFormed(image_objects[m])
             => \E k \in DOMAIN images : images[k] = RecordOf(image_objects[m])

\* search has returned a record with empty strings and a width that is not
\* positive.
C9_Witness ==
    /\ upc = "returned"
    /\ found.kind = "Ok"
    /\ \E m \in DOMAIN found.images :
         /\ found.images[m].url = ""
         /\ found.images[m].width <= 0

RecordsOf(objs) ==
    LET wf == SelectSeq(objs, WellFormed)
    IN  [m \in 1..Len(wf) |-> RecordOf(wf[m])]

IsPrefix(a, b) == Len(a) <= Len(b) /\ a = SubSeq(b, 1, Len(a))

\* search has returned Ok.
SearchOk == upc \in {"urls", "returned"} /\ found.kind = "Ok"

C15_UrlsFollowSelector ==
    (upc = "returned" /\ call \in {"urls", "download"} /\ found.kind = "Ok")
       => /\ Len(all) = Len(found.images)
          /\ \A m \in DOMAIN found.images :
                all[m] = IF thumbnails THEN found.images[m].thumbnail
                                       ELSE found.images[m].url

\* download has its pool, of two thumbnails that differ.
C15_Witness ==
    /\ upc = "returned"
    /\ call = "download"
    /\ thumbnails
    /\ Len(all) = 2
    /\ all[1] = found.images[1].thumbnail
    /\ all[1] # all[2]

\* A failed attempt of task t, before the task takes the lock again.
Failed(t) == pc[t] = "next_available" /\ outcome[t].err \in {"Network", "Extension", "Fs"}

\* C12: in the async and in the blocking path, bytes whose first 1024 bytes
\* contain <svg are classified svg whatever signature detection says, so the
\* attempt does not fail with Extension and a success has the extension svg.
C12_SvgTextIsSvg ==
    \A t \in Tasks :
       buf[t] = "svg"
          => /\ outcome[t].err # "Extension"
             /\ outcome[t].ok => outcome[t].path = WithExtension(paths[t], SVG)

\* In an attempt of some task, no file appears and the task is back at
\* next_available.
NothingWritten(t) == files' = files /\ created' = created /\ pc'[t] = "next_available"

\* Bytes that are not SVG text, without signature or with a signature that
\* is not an image, have failed task t's attempt with Extension.
C13_Rejected(t) == buf[t] \in {"zip", "txt"}

C13_RejectedState ==
    \A t \in Tasks :
       C13_Rejected(t)
          => /\ outcome[t] = Err("Extension")
             /\ pc[t] \in {"next_available", "locked"}
             /\ phase = "join_all"

C13_RejectedStep ==
    \A t \in Tasks : (~C13_Rejected(t) /\ C13_Rejected(t)') => NothingWritten(t)

\* download returns, if it returns a result of download_n, Ok.
C13_NotSurfaced == (phase = "returned" /\ pc # <<>>) => result = "Ok"

\* C13: bytes that are not SVG text and have no signature or one that is not
\* an image fail the attempt with DownloadError::Extension; the attempt
\* creates no file, the error does not reach the caller, and the task goes
\* on to next_available for the same slot.
C13_ExtensionErrorRetries ==
    /\ []C13_RejectedState
    /\ [][C13_RejectedStep]_vars
    /\ []C13_NotSurfaced

\* A task is about to pop the next candidate after an archive was rejected.
C13_Witness ==
    \E t \in Tasks : buf[t] = "zip" /\ pc[t] = "locked" /\ mut_urls # <<>>

\* C14: when create_dir_all fails download returns Error::Dir, with no task
\* launched, nothing popped from the pool and no file written.
C14_DirErrorLaunchesNothing ==
    result = "Err(Dir)"
       => /\ phase = "returned"
          /\ paths = <<>>
          /\ pc = <<>>
          /\ mut_urls = <<>>
          /\ popped = <<>>
          /\ created = <<>>
          /\ files \in Directories(query)

\* download has returned Error::Dir although it had candidates and slots.
C14_Witness ==
    /\ result = "Err(Dir)"
    /\ phase = "returned"
    /\ urls # <<>>
    /\ limit > 0

IsSuffix(a, b) ==
    Len(a) <= Len(b) /\ a = SubSeq(b, Len(b) - Len(a) + 1, Len(b))

C16_PoolIsSuffix ==
    phase = "join_all" => IsSuffix(mut_urls, urls) /\ Len(mut_urls) + Len(popped) = Len(urls)

C16_PoolStep ==
    phase = "join_all"
       => \/ mut_urls' = mut_urls
          \/ mut_urls # <<>> /\ mut_urls' = Tail(mut_urls)

\* C16: during the concurrent phase the pool changes only by removal of its
\* front element: it never grows, it stays a suffix of the initial pool, and
\* the candidate of a failed attempt is not put back.
C16_PoolOnlyShrinks == []C16_PoolIsSuffix /\ [][C16_PoolStep]_vars

\* An attempt has failed and the pool is shorter than it was, with
\* candidates left.
C16_Witness ==
    /\ \E t \in Tasks : Failed(t)
    /\ mut_urls # <<>>
    /\ Len(mut_urls) < Len(urls)

C17_TasksEnd ==
    \A t \in Tasks :
       pc[t] = "returned"
          => \/ outcome[t].ok /\ outcome[t].path \in files
             \/ outcome[t].err = "Overflow" /\ mut_urls = <<>>

C17_AllTasksWaited ==
    (phase = "returned" /\ result = "Ok") => \A t \in Tasks : pc[t] = "returned"

\* C17: when every attempt finishes, every download_until task terminates,
\* either with a written path or with Overflow on an empty pool, and
\* download_n returns only after all its tasks have terminated.
C17_Termination ==
    /\ <>(phase = "returned")
    /\ []C17_TasksEnd
    /\ []C17_AllTasksWaited

\* download_n has returned; one task ended with a path, another with
\* Overflow.
C17_Witness ==
    /\ phase = "returned"
    /\ result = "Ok"
    /\ \E t1, t2 \in Tasks : outcome[t1].ok /\ outcome[t2].err = "Overflow"

C18_LockHolders ==
    /\ Cardinality(lock) <= 1
    /\ \A t \in Tasks : t \in lock <=> pc[t] = "locked"

C18_PoolStepByHolder ==
    mut_urls' # mut_urls /\ phase = "join_all"
       => \E t \in lock : lock' = {} /\ pc'[t] = "download_image"

\* C18: a task in a fetch, a classification or a file write does not hold
\* the pool lock; the lock is held only for the empty check and the pop of
\* next_available, which are one step for the other tasks, and by one task
\* at a time.
C18_LockOnlyForPop == []C18_LockHolders /\ [][C18_PoolStepByHolder]_vars

\* One task holds the lock while another is in download_image.
C18_Witness ==
    \E t1, t2 \in Tasks : pc[t1] = "locked" /\ pc[t2] = "download_image"

\* C19: any two tasks of one download call write to different final paths,
\* for every base name and every pair of extensions.
C19_DisjointWrites ==
    \A t1, t2 \in Tasks : t1 # t2 => created[t1] \cap created[t2] = {}

C20_OverflowStep ==
    \A s \in Tasks :
       (outcome[s].err # "Overflow" /\ outcome'[s].err = "Overflow")
          => /\ phase' = "join_all"
             /\ files' = files
             /\ \A t \in Tasks \ {s} :
                   /\ pc'[t] = pc[t]
                   /\ url'[t] = url[t]
                   /\ outcome'[t] = outcome[t]

C20_SiblingsRun ==
    \A t \in Tasks : pc[t] \in {"download_image", "locked"} => phase = "join_all"

C20_SuccessesReturned ==
    (phase = "returned" /\ result = "Ok")
       => /\ Len(with_extensions) = Cardinality({t \in Tasks : outcome[t].ok})
          /\ \A t \in Tasks :
                outcome[t].ok
                   => \E k \in DOMAIN with_extensions :
                         with_extensions[k] = outcome[t].path

\* C20: a task that ends with Overflow does not cancel or alter a sibling:
\* a sibling that had popped a candidate goes on with its attempt, and the
\* path of a sibling that succeeds is in download_n's result.
C20_OverflowLeavesSiblings ==
    /\ [][C20_OverflowStep]_vars
    /\ []C20_SiblingsRun
    /\ []C20_SuccessesReturned

\* The first task has ended with Overflow while the second, which popped
\* the last candidate, is in download_image.
C20_Witness ==
    /\ phase = "join_all"
    /\ Len(pc) = 2
    /\ pc[1] = "returned"
    /\ outcome[1].err = "Overflow"
    /\ pc[2] = "download_image"

\* No file of the directory matches base + s + ".*".
FreeSuffix(s) == Glob(Stem(s)) = {}

\* The i-th smallest suffix that is free, counted from 1.
NthFree(i) ==
    CHOOSE s \in 0..(i + Cardinality(files)) :
       FreeSuffix(s) /\ Cardinality({r \in 0..(s - 1) : FreeSuffix(r)}) = i - 1

\* C21: reservation follows one rule with one counter that starts at 0: the
\* reserved suffixes increase strictly and are the smallest suffixes for
\* which no existing file matches base + s + ".*".
C21_SmallestFreeSuffixes ==
    /\ \A i \in DOMAIN paths : paths[i] = Stem(NthFree(i))
    /\ paths # <<>> /\ phase = "for" => suffix = NthFree(Len(paths)) + 1

\* Two stems are reserved and the suffix 1, which has files, was skipped.
C21_Witness ==
    /\ phase = "for"
    /\ Len(paths) = 2
    /\ Len(paths) = limit
    /\ paths = <<Stem(0), Stem(2)>>

\* download has not returned an error of urls or of create_dir_all.
NoEarlyError == result \notin UrlsErrors \cup {"Err(Dir)"}

\* C22 as stated: the directory is created and all N stems are reserved
\* before any network I/O begins.
C22_ReservedBeforeNetwork ==
    (phase # "urls" /\ NoEarlyError)
       => Len(paths) = limit /\ phase \notin {"create_dir", "for", "while"}

C22_FetchAfterReservation ==
    /\ phase \in {"urls", "create_dir", "for", "while"}
          => pc = <<>> /\ popped = <<>> /\ mut_urls = <<>>
    /\ (pc # <<>> \/ popped # <<>>)
          => Len(paths) = limit /\ Len(pc) = limit

C22_PathsFixed == phase \in {"join_all", "returned"} => paths' = paths

\* C22 as amended: the search request that collects the candidates comes
\* first; the directory is created and all N stems are reserved before
\* download_n starts a fetch task, pops a candidate or requests an image,
\* and the stems do not change afterwards.
C22_ReservedBeforeFetch == []C22_FetchAfterReservation /\ [][C22_PathsFixed]_vars

\* A task requests an image; two stems are reserved, after a skip.
C22_Witness ==
    /\ \E t \in Tasks : pc[t] = "download_image"
    /\ Len(paths) = 2
    /\ suffix > 2

\* C23: when the document parses and the outer path does not resolve (a
\* step of the wrong type or an index past the end) unpack returns None and
\* search reports Error::Parse without crashing; Parse has no other cause
\* than unpack's None.
C23_OuterPathFailureIsParse ==
    /\ upc = "panicked" => entry > 0
    /\ found.kind = "Err(Parse)" => unpacked = "None"

\* C24: when file writes succeed download_n returns min(N, V) paths: every
\* candidate that was fetched and classified gave a path, and a slot is left
\* without a path only when the pool is empty.
C24_MinOfSlotsAndValid ==
    (Returned /\ FsErrs = 0)
       => /\ Len(with_extensions) = valid
          /\ valid <= limit
          /\ valid < limit => mut_urls = <<>>
          /\ \A t \in Tasks : ~outcome[t].ok => outcome[t].err = "Overflow"

\* Two slots, two candidates of which one is valid: one path.
C24_Witness ==
    /\ Returned
    /\ FsErrs = 0
    /\ limit = 2
    /\ Len(popped) = 2
    /\ Len(with_extensions) = 1

\* The tasks that succeeded, below task t.
OkBelow(t) == {r \in 1..(t - 1) : outcome[r].ok}

\* C25: the list download_n returns is ordered by slot: the paths of the
\* tasks that succeeded, in reservation order, each made of its own stem and
\* its extension by with_extension.
C25_ResultInSlotOrder ==
    Returned
       => /\ Len(with_extensions) = Cardinality({t \in Tasks : outcome[t].ok})
          /\ \A t \in Tasks :
                outcome[t].ok
                   => /\ with_extensions[Cardinality(OkBelow(t)) + 1] = outcome[t].path
                      /\ \E ext \in {PNG, SVG} :
                            outcome[t].path = WithExtension(paths[t], ext)

\* Both slots succeeded and the two paths differ.
C25_Witness ==
    /\ Returned
    /\ Len(with_extensions) = 2
    /\ with_extensions[1] # with_extensions[2]
    /\ with_extensions[2] = outcome[2].path

\* C26: the k-th pop of the run returns the k-th element of the initial
\* pool, and there are no more attempts than the pool has elements.
C26_PoppedInPoolOrder ==
    /\ Len(popped) <= Len(urls)
    /\ popped = SubSeq(urls, 1, Len(popped))
    /\ valid <= Len(popped)
    /\ \A t \in Tasks : pc[t] = "download_image" => url[t] \in 1..Len(popped)

\* One task holds the second candidate after its first attempt failed.
C26_Witness ==
    /\ Len(pc) = 1
    /\ pc[1] = "download_image"
    /\ url[1] = 2
    /\ popped = <<1, 2>>

\* C27: download builds its pool from all extracted records, not from the
\* first limit of them.
C27_PoolFromAllRecords ==
    (call = "download" /\ upc = "returned" /\ found.kind = "Ok")
       => /\ found.images = images
          /\ Len(all) = Len(images)

\* download has a pool larger than its limit.
C27_Witness ==
    /\ call = "download"
    /\ upc = "returned"
    /\ limit > 0
    /\ Len(all) > limit

====
